---- MODULE Spec2Model ----
(***************************************************************************)
(* Model of python-commandline-parser/commandline-parser.py.               *)
(*                                                                         *)
(* Strings are sequences of one-character strings, so that startswith,     *)
(* partition, join, int() and float() are computed on the characters.      *)
(* Python indices are kept as they are: token i of sys.argv is argv[i+1].  *)
(* A dict is a function whose domain is the set of its keys.               *)
(* The strings that occur are built from ASCII letters, digits, "-", "=",  *)
(* "+", "/", ",", "(", ")" and " "; int() and float() are modelled on      *)
(* that alphabet less " " (no "_", no "." and no whitespace in a token).   *)
(***************************************************************************)
EXTENDS Integers, Sequences, FiniteSets, TLC

VARIABLES argv, schema, status, stack, result, err, rets, output,
          heap, retval, calls

vars == <<argv, schema, status, stack, result, err, rets, output, heap, retval, calls>>

\* Largest number of arguments after the program name.
MaxArgs == 3

\* Largest number of builder calls of a program that builds a schema.
MaxCalls == 3

-----------------------------------------------------------------------------
(* Python values *)

\* None, for an optional string (val, arg) and for an optional index.
NoStr == [some |-> FALSE, s |-> <<>>]
SomeStr(s) == [some |-> TRUE, s |-> s]
NoIndex == [some |-> FALSE, i |-> 0]
SomeIndex(i) == [some |-> TRUE, i |-> i]

EmptyDict == <<>>

\* a reference to an object, or None
NoRef == [none |-> TRUE, id |-> ""]
Ref(id) == [none |-> FALSE, id |-> id]

VStr(s) == [kind |-> "str", s |-> s, n |-> 0, x |-> 0, b |-> FALSE, m |-> EmptyDict]
VInt(n) == [kind |-> "int", s |-> <<>>, n |-> n, x |-> 0, b |-> FALSE, m |-> EmptyDict]
\* the float n * 10^x, or the special float named s ("nan", "inf") of sign n
VFloat(n, x, s) == [kind |-> "float", s |-> s, n |-> n, x |-> x, b |-> FALSE, m |-> EmptyDict]
VBool(b) == [kind |-> "bool", s |-> <<>>, n |-> 0, x |-> 0, b |-> b, m |-> EmptyDict]
VDict(m) == [kind |-> "dict", s |-> <<>>, n |-> 0, x |-> 0, b |-> FALSE, m |-> m]

\* a merge in which the left operand wins on a shared key
MergeLeftBiased(a, b) ==
    [k \in (DOMAIN a) \cup (DOMAIN b) |-> IF k \in DOMAIN a THEN a[k] ELSE b[k]]

\* a | b with the key order dropped: on a shared key the right operand wins
Merge(a, b) ==
    [k \in (DOMAIN a) \cup (DOMAIN b) |-> IF k \in DOMAIN b THEN b[k] ELSE a[k]]

Single(k, v) == [j \in {k} |-> v]

-----------------------------------------------------------------------------
(* str methods and conversions *)

UpperCase == <<"A","B","C","D","E","F","G","H","I","J","K","L","M",
               "N","O","P","Q","R","S","T","U","V","W","X","Y","Z">>
LowerCase == <<"a","b","c","d","e","f","g","h","i","j","k","l","m",
               "n","o","p","q","r","s","t","u","v","w","x","y","z">>
Digits == <<"0","1","2","3","4","5","6","7","8","9">>

LowerChar(c) ==
    IF \E k \in 1..Len(UpperCase) : UpperCase[k] = c
    THEN LowerCase[CHOOSE k \in 1..Len(UpperCase) : UpperCase[k] = c]
    ELSE c

Lower(s) == [k \in 1..Len(s) |-> LowerChar(s[k])]

\* a test that takes a lone "-" for a plain token
StartsWithDashLong(s) == Len(s) > 1 /\ s[1] = "-"

\* s.startswith("-")
StartsWithDash(s) == Len(s) > 0 /\ s[1] = "-"

\* position of the first "=", 0 when there is none
FirstEq(s) ==
    IF \E k \in 1..Len(s) : s[k] = "="
    THEN CHOOSE k \in 1..Len(s) : s[k] = "=" /\ \A j \in 1..(k-1) : s[j] /= "="
    ELSE 0

\* s.partition("=")
Partition(s) ==
    LET k == FirstEq(s)
    IN IF k = 0 THEN <<s, <<>>, <<>>>>
       ELSE <<SubSeq(s, 1, k-1), <<"=">>, SubSeq(s, k+1, Len(s))>>

RECURSIVE JoinCommas(_, _)
\* a join that puts ", " between the parts whatever the separator
JoinCommas(sep, parts) ==
    IF Len(parts) = 0 THEN <<>>
    ELSE IF Len(parts) = 1 THEN parts[1]
    ELSE parts[1] \o <<",", " ">> \o JoinCommas(sep, Tail(parts))

RECURSIVE Join(_, _)
\* sep.join(parts)
Join(sep, parts) ==
    IF Len(parts) = 0 THEN <<>>
    ELSE IF Len(parts) = 1 THEN parts[1]
    ELSE parts[1] \o sep \o Join(sep, Tail(parts))

IsDigit(c) == \E k \in 1..Len(Digits) : Digits[k] = c
DigitVal(c) == (CHOOSE k \in 1..Len(Digits) : Digits[k] = c) - 1
AllDigits(s) == Len(s) > 0 /\ \A k \in 1..Len(s) : IsDigit(s[k])

RECURSIVE DigitsVal(_)
DigitsVal(s) ==
    IF Len(s) = 0 THEN 0
    ELSE 10 * DigitsVal(SubSeq(s, 1, Len(s)-1)) + DigitVal(s[Len(s)])

HasSign(s) == Len(s) > 0 /\ s[1] \in {"-", "+"}
Unsigned(s) == IF HasSign(s) THEN Tail(s) ELSE s
SignOf(s) == IF Len(s) > 0 /\ s[1] = "-" THEN -1 ELSE 1

\* int(s) does not raise ValueError
IntOK(s) == AllDigits(Unsigned(s))
IntVal(s) == SignOf(s) * DigitsVal(Unsigned(s))

SpecialFloats == {<<"n","a","n">>, <<"i","n","f">>, <<"i","n","f","i","n","i","t","y">>}

\* position of the exponent marker, 0 when there is none
FirstE(s) ==
    IF \E k \in 1..Len(s) : s[k] = "e"
    THEN CHOOSE k \in 1..Len(s) : s[k] = "e" /\ \A j \in 1..(k-1) : s[j] /= "e"
    ELSE 0

\* float(s) does not raise ValueError
FloatOK(s) ==
    LET u == Lower(Unsigned(s))
        k == FirstE(u)
    IN \/ u \in SpecialFloats
       \/ k = 0 /\ AllDigits(u)
       \/ k > 0 /\ AllDigits(SubSeq(u, 1, k-1))
                /\ AllDigits(Unsigned(SubSeq(u, k+1, Len(u))))

FloatVal(s) ==
    LET u == Lower(Unsigned(s))
        k == FirstE(u)
    IN IF u \in SpecialFloats THEN VFloat(SignOf(s), 0, SubSeq(u, 1, 3))
       ELSE IF k = 0 THEN VFloat(SignOf(s) * DigitsVal(u), 0, <<>>)
       ELSE VFloat(SignOf(s) * DigitsVal(SubSeq(u, 1, k-1)),
                   IntVal(SubSeq(u, k+1, Len(u))), <<>>)

-----------------------------------------------------------------------------
(* String literals of the source *)

sCommand == <<"c","o","m","m","a","n","d">>
sHelp == <<"-","-","h","e","l","p">>
sUnknownSwitch == <<"U","n","k","n","o","w","n"," ","s","w","i","t","c","h",":"," ">>
sMissingOption == <<"M","i","s","s","i","n","g"," ","o","p","t","i","o","n",":"," ">>
sTooMany == <<"T","o","o"," ","m","a","n","y"," ","a","r","g","u","m","e","n","t","s"," ",
              "r","e","c","e","i","v","e","d",":"," ">>
sExpected == <<"E","x","p","e","c","t","e","d"," ">>
sGot == <<","," ","g","o","t"," ">>
sValueNotProvided == <<"V","a","l","u","e"," ","n","o","t"," ","p","r","o","v","i","d","e","d"," ",
                       "f","o","r"," ","a"," ","n","o","n","-","b","o","o","l","e","a","n"," ",
                       "o","p","t","i","o","n">>
sInt == <<"i","n","t">>
sFloat == <<"f","l","o","a","t">>
sBoolSwitch == <<"b","o","o","l"," ","s","w","i","t","c","h">>
sTrue == <<"t","r","u","e">>
sFalse == <<"f","a","l","s","e">>

-----------------------------------------------------------------------------
(* Errors *)

NoError == [kind |-> "none", index |-> NoIndex, message |-> <<>>]

CommandLineError(kind, index, message) ==
    [kind |-> kind, index |-> index, message |-> message]

\* an index counted from the first argument instead of the program name
UnknownSwitchFromFirstArgument(index, switch) ==
    CommandLineError("UnknownSwitch", SomeIndex(index - 1), sUnknownSwitch \o switch)

UnknownSwitch(index, switch) ==
    CommandLineError("UnknownSwitch", SomeIndex(index), sUnknownSwitch \o switch)

MissingOption(option) ==
    CommandLineError("MissingOption", NoIndex, sMissingOption \o option)

TooManyPositionals(index, val) ==
    CommandLineError("TooManyPositionals", SomeIndex(index), sTooMany \o val)

InvalidOption(index, expected, got) ==
    CommandLineError("InvalidOption", SomeIndex(index), sExpected \o expected \o sGot \o got)

ValueNotProvided(index) ==
    CommandLineError("ValueNotProvided", SomeIndex(index), sValueNotProvided)

-----------------------------------------------------------------------------
(* Schema builder.  A dict that is iterated (switches, subcommands) is a   *)
(* sequence of <<key, value>> pairs in insertion order.                    *)

HasKey(d, k) == \E j \in 1..Len(d) : d[j][1] = k
Lookup(d, k) == d[CHOOSE j \in 1..Len(d) : d[j][1] = k][2]
\* d[k] = v
DictSet(d, k, v) ==
    IF HasKey(d, k)
    THEN [j \in 1..Len(d) |-> IF d[j][1] = k THEN <<k, v>> ELSE d[j]]
    ELSE Append(d, <<k, v>>)
\* d.values()
DictValues(d) == [j \in 1..Len(d) |-> d[j][2]]
\* list(d)
DictKeys(d) == [j \in 1..Len(d) |-> d[j][1]]

\* value-parser specs: a type tag, a list of allowed strings, or a callable
TypeParser(tag) == [kind |-> tag, vals |-> <<>>]
ListParser(vals) == [kind |-> "list", vals |-> vals]
CallParser == [kind |-> "call", vals |-> <<>>]

NoDefault == [has |-> FALSE, v |-> VBool(FALSE)]
Default(v) == [has |-> TRUE, v |-> v]

\* Command.__init__
NewCommand ==
    [positionals |-> <<>>,
     upcoming_positionals_optional |-> FALSE,
     switches |-> <<>>,
     subcommands |-> <<>>,
     subcommands_optional |-> FALSE]

\* the node after cmd.positional(name, description, parser)
Positional(cmd, name, description, parser) ==
    [cmd EXCEPT !.positionals =
        Append(@, [name |-> name, description |-> description, parser |-> parser,
                   optional |-> cmd.upcoming_positionals_optional])]

\* a call that also makes the positionals added before it optional
OptionalPositionalsRetroactive(cmd) ==
    [cmd EXCEPT !.upcoming_positionals_optional = TRUE,
                !.positionals = [k \in 1..Len(@) |-> [@[k] EXCEPT !.optional = TRUE]]]

\* the node after cmd.optional_positionals()
OptionalPositionals(cmd) == [cmd EXCEPT !.upcoming_positionals_optional = TRUE]

\* the node after cmd.optional_subcommands()
OptionalSubcommands(cmd) == [cmd EXCEPT !.subcommands_optional = TRUE]

RECURSIVE SetAliases(_, _, _)
SetAliases(d, aliases, info) ==
    IF Len(aliases) = 0 THEN d
    ELSE SetAliases(DictSet(d, Head(aliases), info), Tail(aliases), info)

\* the node after cmd.switch(switches, name, description, parser, optional=..., [default=...])
Switch(cmd, switches, name, description, parser, optional, default) ==
    [cmd EXCEPT !.switches =
        SetAliases(@, switches,
                   [name |-> name, switches |-> switches,
                    description |-> description, parser |-> parser,
                    optional |-> optional, default |-> default])]

\* the node after cmd.subcommand(name, child)
Subcommand(cmd, name, child) ==
    [cmd EXCEPT !.subcommands = DictSet(@, name, child)]

\* what each builder method returns to its caller: self, or None where the
\* method has no return statement
PositionalReturns(self) == Ref(self)
OptionalPositionalsReturns(self) == NoRef
OptionalSubcommandsReturns(self) == NoRef
SwitchReturns(self) == Ref(self)
SubcommandReturns(self) == Ref(self)

-----------------------------------------------------------------------------
(* parse_arg *)

Returned(d) == [ok |-> TRUE, d |-> d, err |-> NoError]
Raised(e) == [ok |-> FALSE, d |-> EmptyDict, err |-> e]

\* a caller-supplied parser: the number of characters of the raw value
CustomParser(i, arg, val) == Returned(VInt(Len(val.s)))

\* a test that asks a value of a boolean option too
NeedsValueAlways(parser, val) == ~val.some

\* parser != "bool" and val == None
NeedsValue(parser, val) == parser.kind /= "bool" /\ ~val.some

ParseArg(i, arg, val, argdef) ==
    LET name == argdef.name
        parser == argdef.parser
    IN IF NeedsValue(parser, val) THEN Raised(ValueNotProvided(i))
       ELSE IF parser.kind = "str" THEN Returned(Single(name, VStr(val.s)))
       ELSE IF parser.kind = "int" THEN
            IF IntOK(val.s) THEN Returned(Single(name, VInt(IntVal(val.s))))
            ELSE Raised(InvalidOption(i, sInt, val.s))
       ELSE IF parser.kind = "float" THEN
            IF FloatOK(val.s) THEN Returned(Single(name, FloatVal(val.s)))
            ELSE Raised(InvalidOption(i, sFloat, val.s))
       ELSE IF parser.kind = "bool" THEN
            IF ~val.some \/ Lower(val.s) \in {<<"1">>, sTrue}
            THEN Returned(Single(name, VBool(TRUE)))
            ELSE IF Lower(val.s) \in {<<"0">>, sFalse}
            THEN Returned(Single(name, VBool(FALSE)))
            ELSE Raised(InvalidOption(i, sBoolSwitch, val.s))
       ELSE IF parser.kind = "list" THEN
            IF \E k \in 1..Len(parser.vals) : parser.vals[k] = val.s
            THEN Returned(Single(name, VStr(val.s)))
            ELSE Raised(InvalidOption(i, Join(<<"/">>, parser.vals), val.s))
       ELSE LET r == CustomParser(i, arg, val)
            IN IF r.ok THEN Returned(Single(name, r.d)) ELSE r

-----------------------------------------------------------------------------
(* Printed text.  output is the sequence of the arguments of the print()   *)
(* calls, in order (print() with no argument gives the empty string); ESC  *)
(* stands for the character \033 and NL for \n.                            *)

ESC == "ESC"
NL == "NL"
sStr == <<"s","t","r">>
sBool == <<"b","o","o","l">>
PadWidth == 8
DefaultIndent == 2

Spaces(n) == [k \in 1..n |-> " "]

\* _red
Red(s) == <<ESC,"[","0",";","9","1","m">> \o s \o <<ESC,"[","0","m">>

\* _bold
Bold(s) == <<ESC,"[","1","m">> \o s \o <<ESC,"[","0","m">>

\* _pad
Pad(s, x, indent) ==
    IF Len(s) < x THEN Spaces(indent) \o s \o Spaces(x - Len(s))
    ELSE Spaces(indent) \o s \o <<NL>> \o Spaces(indent + x)

\* len(argv) and argv[i]; argv[lo:hi] is SubSeq(argv, lo + 1, hi)
PyLen(a) == Len(a)
At(a, i) == a[i + 1]

\* _highlight_incorrect
HighlightIncorrect(a, incorrect_index) ==
    LET binary == At(a, 0)
        sep == <<" ">>
        correct_part_1 == Join(sep, SubSeq(a, 2, incorrect_index))
        wrong_part == At(a, incorrect_index)
        correct_part_2 == Join(sep, SubSeq(a, incorrect_index + 2, PyLen(a)))
    IN binary \o sep \o Join(sep, <<correct_part_1, Red(wrong_part), correct_part_2>>)

\* CommandLineError.render_message
RenderMessage(e, args) ==
    LET correction == IF e.index.some THEN HighlightIncorrect(args, e.index.i)
                      ELSE <<>>
    IN Red(<<"E","r","r","o","r",":"," ">>) \o e.message \o <<" ", NL, NL>> \o correction

\* the type tag of a parser as the string it is in the source
TagText(parser) ==
    CASE parser.kind = "str" -> sStr
      [] parser.kind = "int" -> sInt
      [] parser.kind = "float" -> sFloat
      [] parser.kind = "bool" -> sBool
      [] OTHER -> <<>>

IsTag(parser) == parser.kind \in {"str", "int", "float", "bool"}

\* every entry of the alias mapping, one per alias
EveryAlias(d) == DictValues(d)

\* the values of {s["name"]: s for s in d.values()}: one entry per name, at
\* the place of the name's first entry, holding the name's last entry
UniqueByName(d) ==
    LET vs == DictValues(d)
        First(k) == \A j \in 1..(k-1) : vs[j].name /= vs[k].name
        LastOfName(k) == CHOOSE m \in 1..Len(vs) :
                             /\ vs[m].name = vs[k].name
                             /\ \A j \in (m+1)..Len(vs) : vs[j].name /= vs[k].name
        firsts == SelectSeq([k \in 1..Len(vs) |-> k], First)
    IN [n \in 1..Len(firsts) |-> vs[LastOfName(firsts[n])]]

\* sorted(xs, key=len): stable
SortedByLen(xs) ==
    LET Before(k) == Cardinality({j \in 1..Len(xs) :
                        Len(xs[j]) < Len(xs[k]) \/ (Len(xs[j]) = Len(xs[k]) /\ j < k)})
    IN [n \in 1..Len(xs) |-> xs[CHOOSE k \in 1..Len(xs) : Before(k) = n - 1]]

\* print_usage(arg, indent): the lines it prints
ArgUsage(arg, indent) ==
    LET value == IF IsTag(arg.parser) THEN TagText(arg.parser)
                 ELSE IF arg.parser.kind = "list" THEN Join(<<"/">>, arg.parser.vals)
                 ELSE <<>>
        name == IF "switches" \in DOMAIN arg
                THEN Join(<<",", " ">>, SortedByLen(arg.switches))
                ELSE arg.name
    IN <<Pad(name, PadWidth, indent) \o arg.description>>
       \o (IF value /= <<>> THEN <<Pad(<<>>, PadWidth, indent) \o value>> ELSE <<>>)

RECURSIVE Concat(_)
Concat(ss) == IF Len(ss) = 0 THEN <<>> ELSE Head(ss) \o Concat(Tail(ss))

\* the summary part of one switch
SwitchSummary(arg) ==
    LET s0 == Join(<<"/">>, arg.switches)
        s1 == IF IsTag(arg.parser) /\ arg.parser.kind /= "bool"
              THEN s0 \o <<"=">> \o TagText(arg.parser)
              ELSE IF arg.parser.kind = "list"
              THEN s0 \o <<"=">> \o Join(<<"/">>, arg.parser.vals)
              ELSE s0
    IN IF arg.optional THEN <<" ", "[">> \o s1 \o <<"]">> ELSE <<" ">> \o s1

RECURSIVE UsageLines(_, _, _, _)
\* Command._print_usage: the lines it prints
UsageLines(cmd, name, indent_start, indent_incr) ==
    LET switches == UniqueByName(cmd.switches)
        s == Bold(name)
             \o Concat([k \in 1..Len(cmd.positionals) |->
                           IF cmd.positionals[k].optional
                           THEN <<" ", "[">> \o cmd.positionals[k].name \o <<"]">>
                           ELSE <<" ">> \o cmd.positionals[k].name])
             \o Concat([k \in 1..Len(switches) |-> SwitchSummary(switches[k])])
             \o (IF Len(cmd.subcommands) = 0 THEN <<>>
                 ELSE IF cmd.subcommands_optional THEN <<" ", "[">> \o sCommand \o <<"]">>
                 ELSE <<" ">> \o sCommand)
    IN <<Spaces(indent_start) \o s>>
       \o Concat([k \in 1..Len(cmd.positionals) |->
                     ArgUsage(cmd.positionals[k], indent_start + indent_incr)])
       \o Concat([k \in 1..Len(switches) |->
                     ArgUsage(switches[k], indent_start + indent_incr)])
       \o Concat([k \in 1..Len(cmd.subcommands) |->
                     <<<<>>>> \o UsageLines(cmd.subcommands[k][2], cmd.subcommands[k][1],
                                            indent_start + indent_incr, indent_incr)])
       \o (IF Len(cmd.subcommands) = 0 THEN <<>> ELSE <<<<>>>>)

\* Command.print_usage(binary, indent=2)
PrintUsage(cmd, binary) == <<<<>>>> \o UsageLines(cmd, binary, 0, DefaultIndent)

-----------------------------------------------------------------------------
(* Command._parse, one token at a time.                                    *)
(*                                                                         *)
(* A frame is one activation of _parse: its node, the index its own        *)
(* enumerate(sys.argv) yields next, out and positional_index.  calledAt    *)
(* (the index of the subcommand token in the caller) and seen (the tokens  *)
(* the activation has classified, in order) are history.                   *)
(* A configuration is the record of the variables a step changes.          *)

Frame(cmd, calledAt) ==
    [cmd |-> cmd, it |-> 1, out |-> EmptyDict, positional_index |-> 0,
     calledAt |-> calledAt, seen |-> <<>>]

Event(i, cls, key, val) == [i |-> i, cls |-> cls, key |-> key, val |-> val]

Top(c) == c.stack[Len(c.stack)]
ReplaceTop(st, f) == [st EXCEPT ![Len(st)] = f]

\* the end of the for loop is reached
Exhausted(a, c) == Top(c).it >= PyLen(a)
NextToken(a, c) == At(a, Top(c).it)

\* an error that is recorded while the parse goes on
ExitContinue(a, c, f, e) ==
    [c EXCEPT !.err = e, !.stack = ReplaceTop(c.stack, f)]

\* a CommandLineError raised in frame f reaches the except clause of the
\* nearest parse(): the message is printed and sys.exit(-1) ends the program
Exit(a, c, f, e) ==
    [c EXCEPT !.status = "exit", !.err = e, !.stack = ReplaceTop(c.stack, f),
              !.output = @ \o <<<<>>, RenderMessage(e, a)>>]

\* Command.parse: a fresh enumerate(sys.argv) whose first item is dropped,
\* the usage exit, then _parse on that iterator
ParseCall(a, c, cmd, calledAt) ==
    IF PyLen(a) <= 1 \/ \E k \in 1..Len(a) : a[k] = sHelp
    THEN [c EXCEPT !.status = "usage", !.output = @ \o PrintUsage(cmd, At(a, 0))]
    ELSE [c EXCEPT !.status = "running",
                   !.stack = Append(@, Frame(cmd, calledAt))]

\* the branch of a dash-prefixed token
DoSwitch(a, c) ==
    LET f == Top(c)
        i == f.it
        p == Partition(At(a, i))
        arg == p[1]
        val == IF p[2] = <<>> THEN NoStr ELSE SomeStr(p[3])
        known == HasKey(f.cmd.switches, arg)
        f1 == [f EXCEPT !.it = i + 1,
                        !.seen = Append(@, Event(i, IF known THEN "switch" ELSE "unknown",
                                                 IF known THEN Lookup(f.cmd.switches, arg).name
                                                 ELSE <<>>, val))]
    IN IF known
       THEN LET r == ParseArg(i, SomeStr(arg), val, Lookup(f.cmd.switches, arg))
            IN IF r.ok
               THEN [c EXCEPT !.stack = ReplaceTop(@, [f1 EXCEPT !.out = Merge(f.out, r.d)])]
               ELSE Exit(a, c, f1, r.err)
       ELSE Exit(a, c, f1, UnknownSwitch(i, arg))

\* the branch of a subcommand name: the child's parse() is called
DoSubcommand(a, c) ==
    LET f == Top(c)
        i == f.it
        arg == At(a, i)
        f1 == [f EXCEPT !.it = i + 1,
                        !.seen = Append(@, Event(i, "sub", arg, NoStr))]
    IN ParseCall(a, [c EXCEPT !.stack = ReplaceTop(@, f1)],
                 Lookup(f.cmd.subcommands, arg), SomeIndex(i))

\* the positional a plain token binds to, taken from the end of the list
PickPositionalReversed(positionals, positional_index) ==
    positionals[Len(positionals) - positional_index]

\* self.positionals[positional_index]
PickPositional(positionals, positional_index) ==
    positionals[positional_index + 1]

\* the branch of a plain token
DoPositional(a, c) ==
    LET f == Top(c)
        i == f.it
        arg == At(a, i)
        full == f.positional_index >= Len(f.cmd.positionals)
        argdef == PickPositional(f.cmd.positionals, f.positional_index)
        f1 == [f EXCEPT !.it = i + 1,
                        !.seen = Append(@, Event(i, IF full THEN "extra" ELSE "pos",
                                                 IF full THEN <<>> ELSE argdef.name,
                                                 SomeStr(arg)))]
    IN IF full THEN Exit(a, c, f1, TooManyPositionals(i, arg))
       ELSE LET r == ParseArg(i, NoStr, SomeStr(arg), argdef)
            IN IF r.ok
               THEN [c EXCEPT !.stack = ReplaceTop(@,
                        [f1 EXCEPT !.out = Merge(f.out, r.d),
                                   !.positional_index = f.positional_index + 1])]
               ELSE Exit(a, c, f1, r.err)

RECURSIVE CheckPositionals(_, _)
\* the loop over self.positionals after the tokens
CheckPositionals(positionals, out) ==
    IF Len(positionals) = 0 THEN Returned(out)
    ELSE IF ~Head(positionals).optional /\ Head(positionals).name \notin DOMAIN out
    THEN Raised(MissingOption(Head(positionals).name))
    ELSE CheckPositionals(Tail(positionals), out)

\* a default is filled in whether or not the switch is optional
FillsDefaultAlways(switch) == switch.default.has

\* a default is never filled in
FillsDefaultNever(switch) == FALSE

\* the switch takes part in the completeness loop and has a default
FillsDefault(switch) == ~switch.optional /\ switch.default.has

RECURSIVE CheckSwitches(_, _)
\* the loop over self.switches.values() after the tokens
CheckSwitches(switches, out) ==
    IF Len(switches) = 0 THEN Returned(out)
    ELSE LET switch == Head(switches)
             name == switch.name
         IN IF name \in DOMAIN out THEN CheckSwitches(Tail(switches), out)
            ELSE IF FillsDefault(switch)
            THEN CheckSwitches(Tail(switches), Merge(out, Single(name, switch.default.v)))
            ELSE IF switch.optional THEN CheckSwitches(Tail(switches), out)
            ELSE Raised(MissingOption(
                     name \o <<" ", "(">> \o Join(<<",", " ">>, switch.switches) \o <<")">>))

\* a check that never asks for a subcommand
CommandMissingNever(cmd, out) == FALSE

\* the condition of the last check of _parse
CommandMissing(cmd, out) ==
    /\ Len(cmd.subcommands) > 0
    /\ ~cmd.subcommands_optional
    /\ sCommand \notin DOMAIN out

\* the checks of _parse after the token loop: out as returned, or the error
EndChecks(cmd, out) ==
    LET r1 == CheckPositionals(cmd.positionals, out)
        r2 == CheckSwitches(DictValues(cmd.switches), out)
    IN IF ~r1.ok THEN r1
       ELSE IF ~r2.ok THEN r2
       ELSE IF CommandMissing(cmd, r2.d)
       THEN Raised(MissingOption(
                sCommand \o <<" ", "(">> \o Join(<<",", " ">>, DictKeys(cmd.subcommands)) \o <<")">>))
       ELSE r2

\* a dict display that leaves the "command" key out
SubResultNoCommand(arg, d) == Single(arg, VDict(d))

\* {"command": arg, arg: <the child's result>}
SubResult(arg, d) == Merge(Single(sCommand, VStr(arg)), Single(arg, VDict(d)))

\* the end of the token loop: the checks, then the return to the caller,
\* which merges the dict display of the subcommand branch into its own out
DoEnd(a, c) ==
    LET f == Top(c)
        r == EndChecks(f.cmd, f.out)
        d == Len(c.stack)
        ret == [cmd |-> f.cmd, depth |-> d, calledAt |-> f.calledAt,
                seen |-> f.seen, out |-> r.d]
    IN IF ~r.ok THEN Exit(a, c, f, r.err)
       ELSE IF d = 1
       THEN [c EXCEPT !.status = "returned", !.result = r.d,
                      !.stack = <<>>, !.rets = Append(@, ret)]
       ELSE LET parent == c.stack[d - 1]
                arg == At(a, f.calledAt.i)
                sub == SubResult(arg, r.d)
            IN [c EXCEPT !.rets = Append(@, ret),
                         !.stack = Append(SubSeq(c.stack, 1, d - 2),
                                          [parent EXCEPT !.out = Merge(parent.out, sub)])]

-----------------------------------------------------------------------------
(* Token classification and the whole run *)

\* the branch of the if statement of the loop body that a token takes
TokenClass(cmd, tok) ==
    IF StartsWithDash(tok) THEN "switch"
    ELSE IF HasKey(cmd.subcommands, tok) THEN "sub"
    ELSE "pos"

Final(c) == c.status \in {"returned", "exit", "usage"}

\* one step of a running parse
StepConf(a, c) ==
    IF Exhausted(a, c) THEN DoEnd(a, c)
    ELSE LET cls == TokenClass(Top(c).cmd, NextToken(a, c))
         IN IF cls = "switch" THEN DoSwitch(a, c)
            ELSE IF cls = "sub" THEN DoSubcommand(a, c)
            ELSE DoPositional(a, c)

RECURSIVE RunToEnd(_, _)
RunToEnd(a, c) == IF Final(c) THEN c ELSE RunToEnd(a, StepConf(a, c))

InitConf ==
    [status |-> "init", stack |-> <<>>, result |-> EmptyDict, err |-> NoError, rets |-> <<>>,
     output |-> <<>>]

\* cmd.parse() with sys.argv = a, run to its end
ParseAll(cmd, a) == RunToEnd(a, ParseCall(a, InitConf, cmd, NoIndex))

-----------------------------------------------------------------------------
(* Schemas and argument lists *)

\* the description given to every positional and switch
dValue == <<"a"," ","v","a","l","u","e">>

kName == <<"n","a","m","e">>
kExtra == <<"e","x","t","r","a">>
kCount == <<"c","o","u","n","t">>
kCnt == <<"c","n","t">>
kRun == <<"r","u","n">>
kGo == <<"g","o">>
kP == <<"p">>
kQ == <<"q">>
kR == <<"r">>
kN == <<"n">>
kK == <<"k">>
kWho == <<"w","h","o">>
kNum == <<"n","u","m">>
kSize == <<"s","i","z","e">>
kFlag == <<"f","l","a","g">>
kRatio == <<"r","a","t","i","o">>
kMode == <<"m","o","d","e">>
aCount == <<"-","-","c","o","u","n","t">>
aC == <<"-","c">>

tProg == <<"p","r","o","g">>
tCount3 == <<"-","-","c","o","u","n","t","=","3">>
tCount == <<"-","-","c","o","u","n","t">>
tC4 == <<"-","c","=","4">>
tC == <<"-","c">>
tCx == <<"-","c","=","x">>
tDash == <<"-">>
tMinus5 == <<"-","5">>
tRun == <<"r","u","n">>
tGo == <<"g","o">>
tAlice == <<"a","l","i","c","e">>
tSeven == <<"7">>

\* the schema of the specification's example
Example ==
    Subcommand(
        Switch(Positional(NewCommand, kName, dValue, TypeParser("str")),
               <<aCount>>, kCount, dValue, TypeParser("int"), TRUE, Default(VInt(5))),
        kRun, NewCommand)

RunA ==
    Switch(
        Positional(Positional(OptionalPositionals(
            Positional(NewCommand, kP, dValue, TypeParser("str"))),
            kQ, dValue, TypeParser("str")), kR, dValue, TypeParser("str")),
        <<aC, aCount>>, kCnt, dValue, TypeParser("int"), TRUE, Default(VInt(9)))

Leaf ==
    Switch(
        Positional(Positional(Positional(OptionalPositionals(NewCommand),
            kP, dValue, TypeParser("str")), kQ, dValue, TypeParser("str")), kR, dValue, TypeParser("str")),
        <<aCount>>, kK, dValue, TypeParser("str"), TRUE, NoDefault)

GoB ==
    Subcommand(
        Switch(
            Positional(Positional(OptionalPositionals(
                Positional(NewCommand, kP, dValue, TypeParser("str"))),
                kQ, dValue, TypeParser("str")), kR, dValue, TypeParser("str")),
            <<aCount, aC>>, kN, dValue, TypeParser("int"), FALSE, Default(VInt(1))),
        kRun, Leaf)

\* two subcommands whose nodes accept the whole argument line
Multi ==
    OptionalSubcommands(
        Subcommand(Subcommand(
            Switch(
                Positional(OptionalPositionals(
                    Positional(NewCommand, kName, dValue, TypeParser("str"))),
                    kExtra, dValue, TypeParser("str")),
                <<aC, aCount>>, kCount, dValue, TypeParser("int"), FALSE, Default(VInt(7))),
            kRun, RunA), kGo, GoB))

\* no subcommand; every kind of value parser
Flat ==
    Switch(Switch(
        Positional(Positional(OptionalPositionals(
            Positional(NewCommand, kNum, dValue, TypeParser("int"))),
            kWho, dValue, ListParser(<<tAlice, tGo>>)), kSize, dValue, CallParser),
        <<aC>>, kFlag, dValue, TypeParser("bool"), TRUE, Default(VBool(FALSE))),
        <<aCount>>, kRatio, dValue, TypeParser("float"), FALSE, NoDefault)

\* an enumerated switch and a switch with a caller-supplied parser
Kinds ==
    Switch(Switch(
        Positional(OptionalPositionals(NewCommand), kWho, dValue, ListParser(<<tAlice, tGo>>)),
        <<aC>>, kMode, dValue, ListParser(<<tSeven, <<"4">>, tGo>>), TRUE, NoDefault),
        <<aCount>>, kSize, dValue, CallParser, TRUE, NoDefault)

Schemas == {Example, Multi, Flat, Kinds}

Tokens == {tCount3, tCount, tC4, tC, tCx, tDash, tMinus5, tRun, tGo, tAlice, tSeven, sHelp}

\* sys.argv: the program name, then up to MaxArgs tokens
Argvs == {<<tProg>> \o s : s \in UNION {[1..n -> Tokens] : n \in 0..MaxArgs}}

-----------------------------------------------------------------------------
(* The state machine *)

Conf ==
    [status |-> status, stack |-> stack, result |-> result, err |-> err, rets |-> rets,
     output |-> output]

Apply(c) ==
    /\ status' = c.status
    /\ stack' = c.stack
    /\ result' = c.result
    /\ err' = c.err
    /\ rets' = c.rets
    /\ output' = c.output
    /\ UNCHANGED <<argv, schema, heap, retval, calls>>

Init ==
    /\ argv \in Argvs
    /\ schema \in Schemas
    /\ status = "init"
    /\ stack = <<>>
    /\ result = EmptyDict
    /\ err = NoError
    /\ rets = <<>>
    /\ output = <<>>
    /\ heap = <<>>
    /\ retval = NoRef
    /\ calls = <<>>

\* the program calls parse() on the root node
ParseRoot ==
    /\ status = "init"
    /\ Apply(ParseCall(argv, Conf, schema, NoIndex))

Running == status = "running" /\ ~Exhausted(argv, Conf)

SwitchToken ==
    /\ Running
    /\ TokenClass(Top(Conf).cmd, NextToken(argv, Conf)) = "switch"
    /\ Apply(DoSwitch(argv, Conf))

SubcommandToken ==
    /\ Running
    /\ TokenClass(Top(Conf).cmd, NextToken(argv, Conf)) = "sub"
    /\ Apply(DoSubcommand(argv, Conf))

PositionalToken ==
    /\ Running
    /\ TokenClass(Top(Conf).cmd, NextToken(argv, Conf)) = "pos"
    /\ Apply(DoPositional(argv, Conf))

EndOfTokens ==
    /\ status = "running"
    /\ Exhausted(argv, Conf)
    /\ Apply(DoEnd(argv, Conf))

Next ==
    \/ ParseRoot
    \/ SwitchToken
    \/ SubcommandToken
    \/ PositionalToken
    \/ EndOfTokens

Spec == Init /\ [][Next]_vars

-----------------------------------------------------------------------------
(* History read off the activations *)

\* the activations of _parse: those running and those that have returned
Activations ==
    {[cmd |-> stack[k].cmd, calledAt |-> stack[k].calledAt, seen |-> stack[k].seen,
      out |-> stack[k].out, depth |-> k, returned |-> FALSE] : k \in 1..Len(stack)}
    \cup
    {[cmd |-> rets[k].cmd, calledAt |-> rets[k].calledAt, seen |-> rets[k].seen,
      out |-> rets[k].out, depth |-> rets[k].depth, returned |-> TRUE] : k \in 1..Len(rets)}

Returns == {r \in Activations : r.returned}

IsDashToken(tok) == Len(tok) > 0 /\ Head(tok) = "-"
SwitchPart(tok) ==
    IF \E k \in 1..Len(tok) : tok[k] = "="
    THEN SubSeq(tok, 1, (CHOOSE k \in 1..Len(tok) :
                            tok[k] = "=" /\ \A j \in 1..(k-1) : tok[j] /= "=") - 1)
    ELSE tok
IsSubToken(cmd, tok) == ~IsDashToken(tok) /\ \E k \in 1..Len(cmd.subcommands) : cmd.subcommands[k][1] = tok
IsPlainToken(cmd, tok) == ~IsDashToken(tok) /\ ~IsSubToken(cmd, tok)
IsAlias(cmd, s) == \E k \in 1..Len(cmd.switches) : cmd.switches[k][1] = s

\* the positions in seen of the tokens that reached the switch named name
Occurrences(f, name) ==
    {j \in 1..Len(f.seen) : f.seen[j].cls = "switch" /\ f.seen[j].key = name}
LastOf(S) == CHOOSE j \in S : \A k \in S : k <= j
SwitchDefs(cmd) == {cmd.switches[k][2] : k \in 1..Len(cmd.switches)}
\* the value a switch token of seen carries, parsed
SuppliedValue(f, j, sw) ==
    ParseArg(f.seen[j].i, NoStr, f.seen[j].val, sw).d[sw.name]
\* the positions in seen of the plain tokens
PlainPositions(f) ==
    {j \in 1..Len(f.seen) : IsPlainToken(f.cmd, At(argv, f.seen[j].i))}
SubPositions(f) ==
    {j \in 1..Len(f.seen) : IsSubToken(f.cmd, At(argv, f.seen[j].i))}
Rank(S, j) == Cardinality({k \in S : k <= j})

MissingMessageOf(sw) ==
    sMissingOption \o sw.name \o <<" ", "(">> \o Join(<<",", " ">>, sw.switches) \o <<")">>

RECURSIVE KeepFrom(_, _, _)
\* a from position k on without the tokens whose index is in S
KeepFrom(a, S, k) ==
    IF k > Len(a) THEN <<>>
    ELSE (IF (k - 1) \in S THEN <<>> ELSE <<a[k]>>) \o KeepFrom(a, S, k + 1)

-----------------------------------------------------------------------------
(* Claims *)

\* C1: the child of a subcommand token at index i is parsed against exactly
\* the tokens at indices greater than i, in order; it classifies neither the
\* subcommand token nor a token before it.
C1_ChildParsesOnlyLaterTokens ==
    \A f \in Activations :
        f.calledAt.some =>
            /\ \A j \in 1..Len(f.seen) : f.seen[j].i = f.calledAt.i + j
            /\ f.returned => Len(f.seen) = PyLen(argv) - 1 - f.calledAt.i

\* C2: once a node has handed a subcommand token to the child it classifies
\* no further token, so it takes at most one subcommand and its result holds
\* the nested result of at most one subcommand.
C2_ParentStopsAfterSubcommand ==
    \A f \in Activations :
        /\ \A j \in SubPositions(f) : j = Len(f.seen)
        /\ f.returned => Cardinality({k \in DOMAIN f.out : f.out[k].kind = "dict"}) <= 1

\* C3: in a successful parse, a node that took the subcommand token S maps
\* "command" to S and S to the result the child returned; the nested mapping
\* is empty when the child declares no arguments.
C3_ResultNamesTakenSubcommand ==
    status = "returned" =>
        \A r \in Returns : \A j \in SubPositions(r) :
            LET S == At(argv, r.seen[j].i)
                child == Lookup(r.cmd.subcommands, S)
            IN /\ sCommand \in DOMAIN r.out
               /\ r.out[sCommand] = VStr(S)
               /\ S \in DOMAIN r.out
               /\ \E q \in Returns :
                    /\ q.depth = r.depth + 1
                    /\ q.calledAt = SomeIndex(r.seen[j].i)
                    /\ q.cmd = child
                    /\ r.out[S] = VDict(q.out)
               /\ (child.positionals = <<>> /\ child.switches = <<>>
                   /\ child.subcommands = <<>>) => r.out[S] = VDict(EmptyDict)

\* C4: a switch registered with optional=false and a default: when no token
\* of the node's stream matches an alias of it the parse does not fail for
\* that switch and the result maps its name to the default; when it was
\* supplied the result holds the supplied value.
C4_RequiredSwitchDefault ==
    /\ \A r \in Returns : \A sw \in SwitchDefs(r.cmd) :
          (~sw.optional /\ sw.default.has) =>
              /\ sw.name \in DOMAIN r.out
              /\ IF Occurrences(r, sw.name) = {}
                 THEN r.out[sw.name] = sw.default.v
                 ELSE r.out[sw.name] = SuppliedValue(r, LastOf(Occurrences(r, sw.name)), sw)
    /\ status = "exit" =>
          \A sw \in SwitchDefs(Top(Conf).cmd) :
              (~sw.optional /\ sw.default.has) => err.message /= MissingMessageOf(sw)

C4_Witness ==
    /\ status = "returned"
    /\ schema = Multi
    /\ \E r \in Returns :
          /\ r.depth = 1
          /\ Occurrences(r, kCount) = {}
          /\ r.out[kCount] = VInt(7)
          /\ Len(r.seen) >= 2

\* C5 as stated: an optional switch with a default that is absent from the
\* tokens appears in the result with the default.
C5_OptionalSwitchDefaultFilled ==
    \A r \in Returns : \A sw \in SwitchDefs(r.cmd) :
        (sw.optional /\ sw.default.has /\ Occurrences(r, sw.name) = {}) =>
            /\ sw.name \in DOMAIN r.out
            /\ r.out[sw.name] = sw.default.v

\* C5 amended: an optional switch with a default that is absent from the
\* tokens does not appear in the result; the default is filled in only for
\* a switch that is not optional.
C5_OptionalSwitchDefaultIgnored ==
    \A r \in Returns : \A sw \in SwitchDefs(r.cmd) :
        (sw.optional /\ sw.default.has /\ Occurrences(r, sw.name) = {}) =>
            sw.name \notin DOMAIN r.out

C5_Witness ==
    /\ status = "returned"
    /\ \E r \in Returns :
          /\ r.cmd = RunA
          /\ Occurrences(r, kCnt) = {}
          /\ kCnt \notin DOMAIN r.out
          /\ kP \in DOMAIN r.out

\* what the end-of-stream checks look for, read off the tokens classified
MissingCond(f) ==
    \/ \E k \in 1..Len(f.cmd.positionals) :
          ~f.cmd.positionals[k].optional /\ k > Cardinality(PlainPositions(f))
    \/ \E sw \in SwitchDefs(f.cmd) :
          ~sw.optional /\ ~sw.default.has /\ Occurrences(f, sw.name) = {}
    \/ Len(f.cmd.subcommands) > 0 /\ ~f.cmd.subcommands_optional /\ SubPositions(f) = {}

TopActivation ==
    [cmd |-> Top(Conf).cmd, seen |-> Top(Conf).seen]

\* C6: when a node's token stream is exhausted without a token-level fault,
\* the parse fails with MissingOption, without an index, if a non-optional
\* positional is unbound, a non-optional switch without default was not
\* supplied, or a subcommand is required and none was taken; MissingOption
\* is raised in no other case.
C6_MissingOptionExactly ==
    [][ /\ (status = "running" /\ Exhausted(argv, Conf)) =>
              IF MissingCond(TopActivation)
              THEN status' = "exit" /\ err'.kind = "MissingOption" /\ err'.index = NoIndex
              ELSE status' /= "exit" /\ Len(rets') = Len(rets) + 1
        /\ (err'.kind = "MissingOption" /\ err.kind /= "MissingOption") =>
              status = "running" /\ Exhausted(argv, Conf) /\ MissingCond(TopActivation)
      ]_vars

C6_Witness ==
    /\ status = "exit"
    /\ err.kind = "MissingOption"
    /\ err.index = NoIndex
    /\ schema = Example
    /\ Len(Top(Conf).seen) >= 1
    /\ kName \in DOMAIN Top(Conf).out

\* sys.argv without the occurrences of the switch named name that the root
\* met before the last one
OnlyLastGiven(r, name) ==
    LET occ == Occurrences(r, name)
        earlier == {r.seen[j].i : j \in occ \ {LastOf(occ)}}
    IN KeepFrom(argv, earlier, 1)

\* C7: a switch supplied several times with valid values, through one alias
\* or several: the result holds the value of the last occurrence, and the
\* whole result is the one obtained when only the last occurrence is given.
C7_LastOccurrenceWins ==
    /\ \A r \in Returns : \A sw \in SwitchDefs(r.cmd) :
          Occurrences(r, sw.name) /= {} =>
              /\ sw.name \in DOMAIN r.out
              /\ r.out[sw.name] = SuppliedValue(r, LastOf(Occurrences(r, sw.name)), sw)
    /\ status = "returned" =>
          \A r \in {q \in Returns : q.depth = 1} : \A sw \in SwitchDefs(r.cmd) :
              Cardinality(Occurrences(r, sw.name)) >= 2 =>
                  LET c == ParseAll(schema, OnlyLastGiven(r, sw.name))
                  IN c.status = "returned" /\ c.result = result

C7_Witness ==
    /\ status = "returned"
    /\ \E r \in Returns :
          /\ r.depth = 1
          /\ \E j, k \in Occurrences(r, kCount) :
                /\ j < k
                /\ k = LastOf(Occurrences(r, kCount))
                /\ SwitchPart(At(argv, r.seen[j].i)) /= SwitchPart(At(argv, r.seen[k].i))
                /\ r.seen[j].val /= r.seen[k].val
                /\ result[kCount] = VInt(IntVal(r.seen[k].val.s))

\* the keys C8 names for an activation, from its node and the tokens it met
ExpectedKeys(f) ==
    {f.cmd.positionals[k].name : k \in {j \in 1..Len(f.cmd.positionals) :
        ~f.cmd.positionals[j].optional \/ j <= Cardinality(PlainPositions(f))}}
    \cup {sw.name : sw \in {d \in SwitchDefs(f.cmd) :
        ~d.optional \/ Occurrences(f, d.name) /= {}}}
    \cup (IF SubPositions(f) = {} THEN {}
          ELSE {sCommand} \cup {At(argv, f.seen[j].i) : j \in SubPositions(f)})

\* C8: the key set of a returned mapping is exactly the names of the
\* required positionals and switches, the names of the optional positionals
\* and switches that were supplied, and "command" with the subcommand's name
\* when a subcommand token was supplied.
C8_ResultKeySet ==
    \A r \in Returns : DOMAIN r.out = ExpectedKeys(r)

C8_Witness ==
    /\ status = "returned"
    /\ schema = Multi
    /\ DOMAIN result = {kName, kCount, sCommand, kRun}
    /\ \E r \in Returns : r.depth = 2 /\ DOMAIN r.out = {kP, kQ}

\* C9: a dash-prefixed token whose part before the first "=" is no alias of
\* the node fails the parse with UnknownSwitch carrying the index of that
\* token in sys.argv; so do a lone "-" and a negative number.
C9_UnknownSwitchAtIndex ==
    [][ (/\ status = "running"
         /\ ~Exhausted(argv, Conf)
         /\ IsDashToken(NextToken(argv, Conf))
         /\ ~IsAlias(Top(Conf).cmd, SwitchPart(NextToken(argv, Conf)))) =>
            /\ status' = "exit"
            /\ err'.kind = "UnknownSwitch"
            /\ err'.index = SomeIndex(Top(Conf).it)
            /\ err'.message = sUnknownSwitch \o SwitchPart(At(argv, err'.index.i))
      ]_vars

C9_Witness ==
    /\ status = "exit"
    /\ err.kind = "UnknownSwitch"
    /\ err.index.some
    /\ At(argv, err.index.i) = tDash
    /\ err.index.i >= 2

\* the plain tokens of an activation are bound in declared order
BoundInOrder(f, n) ==
    \A j \in PlainPositions(f) :
        LET k == Rank(PlainPositions(f), j)
        IN (k <= Len(f.cmd.positionals) /\ j <= n) =>
              LET argdef == f.cmd.positionals[k]
              IN /\ argdef.name \in DOMAIN f.out
                 /\ f.out[argdef.name] =
                       ParseArg(f.seen[j].i, NoStr, SomeStr(At(argv, f.seen[j].i)), argdef).d[argdef.name]

\* the events of an activation whose processing ended without a fault
Processed(f) ==
    IF status = "exit" /\ ~f.returned /\ f.depth = Len(stack) /\ err.index.some
    THEN Len(f.seen) - 1
    ELSE Len(f.seen)

\* C10: the k-th plain token of a node binds to its k-th declared
\* positional; a plain token met when every declared positional is bound
\* fails the parse with TooManyPositionals carrying that token's index.
C10_PositionalsInOrder ==
    \A f \in Activations :
        /\ BoundInOrder(f, Processed(f))
        /\ \A j \in PlainPositions(f) :
              Rank(PlainPositions(f), j) > Len(f.cmd.positionals) =>
                  /\ status = "exit"
                  /\ ~f.returned
                  /\ f.depth = Len(stack)
                  /\ j = Len(f.seen)
                  /\ err.kind = "TooManyPositionals"
                  /\ err.index = SomeIndex(f.seen[j].i)
                  /\ err.message = sTooMany \o At(argv, f.seen[j].i)

C10_Witness ==
    /\ status = "exit"
    /\ err.kind = "TooManyPositionals"
    /\ err.index.some
    /\ err.index.i = 3
    /\ Len(Top(Conf).cmd.positionals) = 2
    /\ DOMAIN Top(Conf).out = {kName, kExtra}


\* the switch definition a dash-prefixed token names
AliasDef(cmd, tok) ==
    cmd.switches[CHOOSE k \in 1..Len(cmd.switches) : cmd.switches[k][1] = SwitchPart(tok)][2]
HasEq(tok) == \E k \in 1..Len(tok) : tok[k] = "="

\* C11: a known switch given without "=value" fails the parse with
\* ValueNotProvided carrying the token's index when its value spec is not
\* boolean (str, int, float, enumerated list or callable), whatever the next
\* token is; a boolean switch given without a value is mapped to true.
C11_SwitchWithoutValue ==
    [][ (/\ status = "running"
         /\ ~Exhausted(argv, Conf)
         /\ IsDashToken(NextToken(argv, Conf))
         /\ ~HasEq(NextToken(argv, Conf))
         /\ IsAlias(Top(Conf).cmd, NextToken(argv, Conf))) =>
            LET sw == AliasDef(Top(Conf).cmd, NextToken(argv, Conf))
            IN IF sw.parser.kind = "bool"
               THEN /\ status' = "running"
                    /\ Len(stack') = Len(stack)
                    /\ sw.name \in DOMAIN stack'[Len(stack')].out
                    /\ stack'[Len(stack')].out[sw.name] = VBool(TRUE)
               ELSE /\ status' = "exit"
                    /\ err'.kind = "ValueNotProvided"
                    /\ err'.index = SomeIndex(Top(Conf).it)
                    /\ err'.message = sValueNotProvided
      ]_vars

\* a switch with a list parser is given bare and a member of the list follows
C11_Witness ==
    /\ status = "exit"
    /\ err.kind = "ValueNotProvided"
    /\ schema = Kinds
    /\ err.index.some
    /\ At(argv, err.index.i) = tC
    /\ err.index.i + 1 < PyLen(argv)
    /\ At(argv, err.index.i + 1) = tSeven


\* the part of a token after its first "="
ValuePart(tok) ==
    SubSeq(tok, (CHOOSE k \in 1..Len(tok) :
                    tok[k] = "=" /\ \A j \in 1..(k-1) : tok[j] /= "=") + 1, Len(tok))

RECURSIVE SlashList(_)
\* the members of a list with "/" between them
SlashList(vals) ==
    IF Len(vals) = 0 THEN <<>>
    ELSE IF Len(vals) = 1 THEN vals[1]
    ELSE SlashList(SubSeq(vals, 1, Len(vals) - 1)) \o <<"/">> \o vals[Len(vals)]

\* the next token of the running activation gives the raw value raw to
\* the definition argdef, whose value spec is an enumerated list
EnumValueNext(argdef, raw) ==
    /\ status = "running"
    /\ ~Exhausted(argv, Conf)
    /\ argdef.parser.kind = "list"
    /\ LET f == Top(Conf)
           tok == NextToken(argv, Conf)
           act == [cmd |-> f.cmd, seen |-> f.seen]
       IN \/ /\ IsDashToken(tok)
             /\ HasEq(tok)
             /\ IsAlias(f.cmd, SwitchPart(tok))
             /\ argdef = AliasDef(f.cmd, tok)
             /\ raw = ValuePart(tok)
          \/ /\ IsPlainToken(f.cmd, tok)
             /\ Cardinality(PlainPositions(act)) < Len(f.cmd.positionals)
             /\ argdef = f.cmd.positionals[Cardinality(PlainPositions(act)) + 1]
             /\ raw = tok

EnumDefs(cmd) ==
    {d \in SwitchDefs(cmd) : d.parser.kind = "list"}
    \cup {cmd.positionals[k] : k \in {j \in 1..Len(cmd.positionals) :
                                        cmd.positionals[j].parser.kind = "list"}}

\* C12: for a positional or a switch whose value spec is an enumerated list,
\* a raw value equal to a member is returned unchanged, and any other raw
\* value fails the parse with InvalidOption carrying the token's index and a
\* message with the allowed values joined by "/" and the rejected value.
C12_EnumValue ==
    [][ \A argdef \in (IF status = "running" THEN EnumDefs(Top(Conf).cmd) ELSE {}) :
        \A raw \in (IF status = "running" /\ ~Exhausted(argv, Conf)
                    THEN {NextToken(argv, Conf)}
                         \cup (IF HasEq(NextToken(argv, Conf))
                               THEN {ValuePart(NextToken(argv, Conf))} ELSE {})
                    ELSE {}) :
            EnumValueNext(argdef, raw) =>
                IF \E k \in 1..Len(argdef.parser.vals) : argdef.parser.vals[k] = raw
                THEN /\ status' = "running"
                     /\ Len(stack') = Len(stack)
                     /\ argdef.name \in DOMAIN stack'[Len(stack')].out
                     /\ stack'[Len(stack')].out[argdef.name] = VStr(raw)
                ELSE /\ status' = "exit"
                     /\ err'.kind = "InvalidOption"
                     /\ err'.index = SomeIndex(Top(Conf).it)
                     /\ err'.message =
                           sExpected \o SlashList(argdef.parser.vals) \o sGot \o raw
      ]_vars

\* an enumerated switch is given a value outside its list of three
C12_Witness ==
    /\ status = "exit"
    /\ err.kind = "InvalidOption"
    /\ schema = Kinds
    /\ err.index.some
    /\ At(argv, err.index.i) = tCx
    /\ kWho \in DOMAIN Top(Conf).out
    /\ Top(Conf).out[kWho] = VStr(tGo)


\* the example of the specification: the schema Example and the argument
\* line --count=3 alice
ExampleLine == schema = Example /\ argv = <<tProg, tCount3, tAlice>>

\* C13 as stated: with the example schema the tokens --count=3 alice parse
\* to exactly {name: "alice", count: 3}.
C13_ExampleReturnsNameAndCount ==
    (ExampleLine /\ Final(Conf)) =>
        /\ status = "returned"
        /\ result = Merge(Single(kName, VStr(tAlice)), Single(kCount, VInt(3)))

\* C13 amended: with the example schema the tokens --count=3 alice do not
\* parse: name and count are bound to "alice" and 3, and the parse then fails
\* with MissingOption, without an index, for the required subcommand run.
C13_ExampleNeedsCommand ==
    (ExampleLine /\ Final(Conf)) =>
        /\ status = "exit"
        /\ err.kind = "MissingOption"
        /\ err.index = NoIndex
        /\ err.message = sMissingOption \o sCommand \o <<" ", "(", "r", "u", "n", ")">>
        /\ result = EmptyDict
        /\ Top(Conf).out = Merge(Single(kName, VStr(tAlice)), Single(kCount, VInt(3)))

C13_Witness ==
    /\ ExampleLine
    /\ status = "exit"
    /\ err.kind = "MissingOption"
    /\ Len(Top(Conf).seen) = 2


-----------------------------------------------------------------------------
(* A program that builds a schema: builder calls on two Command objects.   *)
(* heap holds the objects, retval what the last call returned, calls the   *)
(* calls that returned.  A child is held by reference.                     *)

Objects == {"a", "b"}
BuildNames == {kName, kExtra, sCommand}
BuildSwitchNames == {kCount, sCommand}

Call(method, self, name) == [method |-> method, self |-> self, name |-> name]

CanCall == status = "building" /\ Len(calls) < MaxCalls

InitBuild ==
    /\ argv = <<tProg>>
    /\ schema = NewCommand
    /\ stack = <<>>
    /\ result = EmptyDict
    /\ err = NoError
    /\ rets = <<>>
    /\ output = <<>>
    /\ status = "building"
    /\ heap = [o \in Objects |-> NewCommand]
    /\ retval = NoRef
    /\ calls = <<>>

UnchangedParse == UNCHANGED <<argv, schema, stack, result, err, rets, output>>

\* the assert of positional() and switch() fails
AssertionFails ==
    /\ status' = "AssertionError"
    /\ UNCHANGED <<heap, retval, calls>>
    /\ UnchangedParse

BuildPositional ==
    \E self \in Objects, name \in BuildNames :
        /\ CanCall
        /\ IF name = sCommand THEN AssertionFails
           ELSE /\ heap' = [heap EXCEPT ![self] = Positional(@, name, dValue, TypeParser("str"))]
                /\ retval' = PositionalReturns(self)
                /\ calls' = Append(calls, Call("positional", self, name))
                /\ UNCHANGED status
                /\ UnchangedParse

BuildOptionalPositionals ==
    \E self \in Objects :
        /\ CanCall
        /\ heap' = [heap EXCEPT ![self] = OptionalPositionals(@)]
        /\ retval' = OptionalPositionalsReturns(self)
        /\ calls' = Append(calls, Call("optional_positionals", self, <<>>))
        /\ UNCHANGED status
        /\ UnchangedParse

BuildOptionalSubcommands ==
    \E self \in Objects :
        /\ CanCall
        /\ heap' = [heap EXCEPT ![self] = OptionalSubcommands(@)]
        /\ retval' = OptionalSubcommandsReturns(self)
        /\ calls' = Append(calls, Call("optional_subcommands", self, <<>>))
        /\ UNCHANGED status
        /\ UnchangedParse

BuildSwitch ==
    \E self \in Objects, name \in BuildSwitchNames, optional \in BOOLEAN :
        /\ CanCall
        /\ IF name = sCommand THEN AssertionFails
           ELSE /\ heap' = [heap EXCEPT ![self] =
                              Switch(@, <<aC, aCount>>, name, dValue, TypeParser("int"),
                                     optional, NoDefault)]
                /\ retval' = SwitchReturns(self)
                /\ calls' = Append(calls, Call("switch", self, name))
                /\ UNCHANGED status
                /\ UnchangedParse

BuildSubcommand ==
    \E self \in Objects, child \in Objects :
        /\ CanCall
        /\ child /= self
        /\ heap' = [heap EXCEPT ![self] = Subcommand(@, kRun, child)]
        /\ retval' = SubcommandReturns(self)
        /\ calls' = Append(calls, Call("subcommand", self, kRun))
        /\ UNCHANGED status
        /\ UnchangedParse

\* a chained call: a method is called on what the last call returned, which
\* is None (a chained call on an object is one of the calls above)
ChainOnNone ==
    /\ CanCall
    /\ Len(calls) > 0
    /\ retval.none
    /\ status' = "AttributeError"
    /\ UNCHANGED <<heap, retval, calls>>
    /\ UnchangedParse

NextBuild ==
    \/ BuildPositional
    \/ BuildOptionalPositionals
    \/ BuildOptionalSubcommands
    \/ BuildSwitch
    \/ BuildSubcommand
    \/ ChainOnNone

SpecBuild == InitBuild /\ [][NextBuild]_vars

\* C14: every builder method returns the node it was called on, so a
\* sequence of builder calls can be chained and ends with that node.
C14_BuilderReturnsSelf ==
    /\ (Len(calls) > 0 /\ status = "building") =>
          retval = [none |-> FALSE, id |-> calls[Len(calls)].self]
    /\ status /= "AttributeError"

\* the calls on object o that added a positional, in order
PositionalCalls(o) ==
    {j \in 1..Len(calls) : calls[j].method = "positional" /\ calls[j].self = o}

\* C19: a positional is optional if and only if optional_positionals() was
\* called on its node before it was added; the call leaves the positionals
\* added earlier as they are and every later one is optional.
C19_OptionalFixedAtCreation ==
    \A o \in DOMAIN heap :
        /\ Len(heap[o].positionals) = Cardinality(PositionalCalls(o))
        /\ \A j \in PositionalCalls(o) :
              LET k == Rank(PositionalCalls(o), j)
              IN /\ heap[o].positionals[k].name = calls[j].name
                 /\ heap[o].positionals[k].optional <=>
                       \E i \in 1..(j - 1) :
                           calls[i].method = "optional_positionals" /\ calls[i].self = o

C19_Witness ==
    \E o \in DOMAIN heap :
        /\ Len(heap[o].positionals) = 2
        /\ ~heap[o].positionals[1].optional
        /\ heap[o].positionals[2].optional
        /\ Len(calls) = 3


-----------------------------------------------------------------------------

RECURSIVE SchemaDepth(_)
\* the subcommand nesting depth of a schema
SchemaDepth(cmd) ==
    IF Len(cmd.subcommands) = 0 THEN 0
    ELSE 1 + (CHOOSE d \in {SchemaDepth(cmd.subcommands[k][2]) : k \in 1..Len(cmd.subcommands)} :
                \A k \in 1..Len(cmd.subcommands) : SchemaDepth(cmd.subcommands[k][2]) <= d)

\* the indices of the tokens an activation has classified
SeenIndices(f) == {f.seen[j].i : j \in 1..Len(f.seen)}

\* C15: the loop of a node runs at most once per token, and the nesting of
\* the recursive subcommand parses never exceeds the subcommand nesting depth
\* of the schema; so the parse of a finite token list ends.
C15_OncePerTokenAndBoundedDepth ==
    /\ \A f \in Activations :
          /\ Cardinality(SeenIndices(f)) = Len(f.seen)
          /\ \A g \in Activations :
                (g /= f /\ g.cmd = f.cmd /\ g.depth = f.depth) =>
                    SeenIndices(f) \cap SeenIndices(g) = {}
    /\ Len(stack) <= 1 + SchemaDepth(schema)

-----------------------------------------------------------------------------
(* Rendering of an error *)

RECURSIVE SpaceJoined(_)
\* the parts with one space between neighbours
SpaceJoined(parts) ==
    IF Len(parts) = 0 THEN <<>>
    ELSE IF Len(parts) = 1 THEN parts[1]
    ELSE parts[1] \o <<" ">> \o SpaceJoined(Tail(parts))

RECURSIVE StripColour(_)
\* the text without its colour codes (ESC up to the next "m")
StripColour(s) ==
    IF Len(s) = 0 THEN <<>>
    ELSE IF Head(s) = ESC
         THEN LET k == CHOOSE k \in 2..Len(s) :
                           s[k] = "m" /\ \A j \in 2..(k-1) : s[j] /= "m"
              IN StripColour(SubSeq(s, k + 1, Len(s)))
         ELSE <<Head(s)>> \o StripColour(Tail(s))

\* the part of a printed text after its last line break
LastLine(s) ==
    LET brk == {k \in 1..Len(s) : s[k] = NL}
        m == IF brk = {} THEN 0 ELSE CHOOSE k \in brk : \A j \in brk : j <= k
    IN SubSeq(s, m + 1, Len(s))

\* C16: for an error with token index i, 1 <= i < len(argv), the highlighted
\* line of the rendering is the tokens of argv in order with exactly one
\* space between neighbours and only token i wrapped in red; without the
\* colour codes it is the tokens joined by single spaces.
C16_HighlightSingleSpaces ==
    (status = "exit" /\ err.index.some) =>
        LET i == err.index.i
            line == LastLine(output[Len(output)])
        IN /\ 1 <= i /\ i < Len(argv)
           /\ line = SpaceJoined([k \in 1..Len(argv) |->
                        IF k = i + 1
                        THEN <<ESC,"[","0",";","9","1","m">> \o argv[k] \o <<ESC,"[","0","m">>
                        ELSE argv[k]])
           /\ StripColour(line) = SpaceJoined(argv)

-----------------------------------------------------------------------------
(* Usage text *)

\* the nodes of a schema in the order they are rendered
RECURSIVE Preorder(_, _)
Preorder(cmd, name) ==
    <<[name |-> name, cmd |-> cmd]>>
    \o Concat([k \in 1..Len(cmd.subcommands) |->
                  Preorder(cmd.subcommands[k][2], cmd.subcommands[k][1])])

\* the printed lines in groups separated by empty lines
Blocks(out) ==
    LET starts == {k \in 1..Len(out) :
                      out[k] /= <<>> /\ (k = 1 \/ out[k-1] = <<>>)}
        EndOf(k) == CHOOSE m \in k..Len(out) :
                        /\ \A j \in k..m : out[j] /= <<>>
                        /\ (m = Len(out) \/ out[m+1] = <<>>)
        Nth(n) == CHOOSE k \in starts : Cardinality({j \in starts : j < k}) = n - 1
    IN [n \in 1..Cardinality(starts) |-> SubSeq(out, Nth(n), EndOf(Nth(n)))]

RECURSIVE Words(_, _)
\* the maximal runs of s without a separator
Words(s, seps) ==
    IF Len(s) = 0 THEN <<>>
    ELSE IF Head(s) \in seps THEN Words(Tail(s), seps)
    ELSE LET n == IF \E k \in 1..Len(s) : s[k] \in seps
                  THEN (CHOOSE k \in 1..Len(s) :
                           s[k] \in seps /\ \A j \in 1..(k-1) : s[j] \notin seps) - 1
                  ELSE Len(s)
         IN <<SubSeq(s, 1, n)>> \o Words(SubSeq(s, n + 1, Len(s)), seps)

\* the words of a whole block
BlockWords(b) ==
    Concat([k \in 1..Len(b) |->
               Words(StripColour(b[k]), {" ", NL, "[", "]", ",", "/", "="})])

\* the entries of the summary line of a block: its heading, then one per
\* argument
SummaryEntries(b) == Words(StripColour(b[1]), {" ", "[", "]"})

\* s without the spaces and line breaks around it
Trim(s) ==
    LET ink == {k \in 1..Len(s) : s[k] \notin {" ", NL}}
    IN IF ink = {} THEN <<>>
       ELSE SubSeq(s, CHOOSE k \in ink : \A j \in ink : k <= j,
                      CHOOSE k \in ink : \A j \in ink : j <= k)

\* line is the description line headed by head
IsDescriptionLine(line, head, description) ==
    /\ Len(line) >= Len(description)
    /\ SubSeq(line, Len(line) - Len(description) + 1, Len(line)) = description
    /\ Trim(SubSeq(line, 1, Len(line) - Len(description))) = head

Count(xs, P(_)) == Cardinality({k \in 1..Len(xs) : P(xs[k])})

\* the aliases in the order of the description line: shortest first, declared
\* order among equals
RECURSIVE ByLength(_)
ByLength(xs) ==
    IF Len(xs) = 0 THEN <<>>
    ELSE LET m == CHOOSE k \in 1..Len(xs) :
                      /\ \A j \in 1..Len(xs) : Len(xs[k]) <= Len(xs[j])
                      /\ \A j \in 1..(k-1) : Len(xs[j]) > Len(xs[k])
         IN <<xs[m]>> \o ByLength(SubSeq(xs, 1, m - 1) \o SubSeq(xs, m + 1, Len(xs)))

RECURSIVE CommaList(_)
CommaList(xs) ==
    IF Len(xs) = 0 THEN <<>>
    ELSE IF Len(xs) = 1 THEN xs[1]
    ELSE xs[1] \o <<",", " ">> \o CommaList(Tail(xs))

\* the usage text has one block per node of the schema, in rendering order,
\* headed by the node's name
UsageBlocksMatch ==
    LET bs == Blocks(output)
        nodes == Preorder(schema, argv[1])
    IN /\ Len(bs) = Len(nodes)
       /\ \A k \in 1..Len(bs) : SummaryEntries(bs[k])[1] = nodes[k].name

\* C17 as stated: the usage text is rendered, and the block of every node
\* shows each declared positional name and each declared switch name exactly
\* once, each subcommand name heading exactly one block.
C17_UsageNamesOnce ==
    status = "usage" =>
        /\ UsageBlocksMatch
        /\ \A k \in 1..Len(Blocks(output)) :
              LET b == Blocks(output)[k]
                  cmd == Preorder(schema, argv[1])[k].cmd
                  Is(name) == LET P(w) == w = name IN Count(BlockWords(b), P) = 1
              IN /\ \A j \in 1..Len(cmd.positionals) : Is(cmd.positionals[j].name)
                 /\ \A j \in 1..Len(cmd.switches) : Is(cmd.switches[j][2].name)

\* C17, amended: the usage text is rendered with one block per node, headed
\* by the node's name (so every subcommand name is printed once).  In the
\* block of a node every positional name is printed twice: once as an entry
\* of the summary line and once heading its description line.  The
\* canonical name of a switch is not printed: a switch is one entry of the
\* summary line, its aliases joined by "/", and heads one description line,
\* its aliases joined by ", " shortest first, however many aliases it has.
C17_UsageEntries ==
    status = "usage" =>
        /\ UsageBlocksMatch
        /\ \A k \in 1..Len(Blocks(output)) :
              LET b == Blocks(output)[k]
                  cmd == Preorder(schema, argv[1])[k].cmd
                  InSummary(e) == LET P(w) == SwitchPart(w) = e
                                  IN Count(Tail(SummaryEntries(b)), P) = 1
                  Heads(h, d) == LET P(l) == IsDescriptionLine(l, h, d)
                                 IN Count(Tail(b), P) = 1
              IN /\ \A j \in 1..Len(cmd.positionals) :
                       LET arg == cmd.positionals[j]
                       IN InSummary(arg.name) /\ Heads(arg.name, arg.description)
                 /\ \A j \in 1..Len(cmd.switches) :
                       LET arg == cmd.switches[j][2]
                       IN /\ InSummary(SlashList(arg.switches))
                          /\ Heads(CommaList(ByLength(arg.switches)), arg.description)

\* the usage text of a schema with a switch of two aliases and subcommands
\* nested twice
C17_Witness ==
    /\ status = "usage"
    /\ \E j \in 1..Len(schema.switches) : Len(schema.switches[j][2].switches) >= 2
    /\ \E j \in 1..Len(schema.subcommands) : Len(schema.subcommands[j][2].subcommands) > 0
    /\ Len(schema.positionals) > 0
    /\ Len(output) > 0

-----------------------------------------------------------------------------
(* Faults *)

\* C18: a fault raised while a token is processed, at any depth, ends the
\* whole parse with that fault: the step that raises it returns nothing,
\* changes no caller's activation and leaves the program exited with an
\* empty result, and no step follows it (no token classified, no
\* end-of-stream check, no default filled, no result returned).
C18_FaultEndsParse ==
    [][ /\ (err.kind /= "none" => UNCHANGED vars)
        /\ (err'.kind /= "none" =>
               /\ status' = "exit"
               /\ result' = EmptyDict
               /\ rets' = rets
               /\ Len(stack') = Len(stack)
               /\ \A k \in 1..(Len(stack) - 1) : stack'[k] = stack[k]) ]_vars

\* a token-level fault in a child whose caller has tokens left to read
C18_Witness ==
    /\ status = "exit"
    /\ err.index.some
    /\ Len(stack) >= 2
    /\ stack[1].it < Len(argv)
    /\ result = EmptyDict

\* C20: an error with a token index, raised at any depth, carries the index
\* i of the token whose processing raised it in the full argument list
\* (program name at index 0): argv[i] is the token the failing activation
\* read last and the message is about it; MissingOption, and only it,
\* carries no index.
C20_ErrorIndexIsArgvIndex ==
    status = "exit" =>
        /\ err.kind /= "none"
        /\ (err.kind = "MissingOption") <=> ~err.index.some
        /\ err.index.some =>
              LET i == err.index.i
                  f == stack[Len(stack)]
                  tok == argv[i + 1]
                  EndsWith(x) == /\ Len(err.message) >= Len(x)
                                 /\ SubSeq(err.message, Len(err.message) - Len(x) + 1,
                                           Len(err.message)) = x
              IN /\ 1 <= i /\ i < Len(argv)
                 /\ Len(f.seen) > 0 /\ f.seen[Len(f.seen)].i = i
                 /\ f.it = i + 1
                 /\ err.kind = "UnknownSwitch" =>
                       IsDashToken(tok) /\ err.message = sUnknownSwitch \o SwitchPart(tok)
                 /\ err.kind = "TooManyPositionals" =>
                       ~IsDashToken(tok) /\ err.message = sTooMany \o tok
                 /\ err.kind = "ValueNotProvided" => IsDashToken(tok) /\ ~HasEq(tok)
                 /\ err.kind = "InvalidOption" =>
                       EndsWith(sGot \o (IF IsDashToken(tok) THEN ValuePart(tok) ELSE tok))

\* an unknown switch met by a child at an index after the subcommand token
C20_Witness ==
    /\ status = "exit"
    /\ err.kind = "UnknownSwitch"
    /\ Len(stack) >= 2
    /\ err.index.i > stack[Len(stack)].calledAt.i

====
